---- MODULE Spec2Model ----
(***************************************************************************)
(* Model of .github/actions/sta-da-move-to-backup/sta-da-move-to-backup.js *)
(*                                                                         *)
(* One invocation of run(): input validation, credential acquisition, the  *)
(* list call, the folder-creation call and the move loop.  Every await of  *)
(* the script is a point where the run is suspended on a remote call; an   *)
(* action of the model is the code between two awaits.                     *)
(*                                                                         *)
(* JavaScript strings are TLA+ strings.  The value `undefined` is the      *)
(* string Undefined, which is no value any input or response carries.      *)
(***************************************************************************)
EXTENDS Integers, Sequences, FiniteSets, TLC

VARIABLES
    inputs,      \* the step's inputs org, repo and path, as core.getInput returns them
    pc,          \* where run() is: "validate", "token", "list", "create",
                 \* "loop", "move" or "done"
    org,         \* const org   (line 131)
    repo,        \* const repo  (line 132)
    path,        \* const path  (line 133)
    token,       \* const token (line 142)
    sources,     \* const sources (line 150)
    now,         \* new Date() of createBackupFolder (line 86)
    folder,      \* backupName and backupPath of createBackupFolder (lines 87, 90)
    backup,      \* const backup  (line 166)
    idx,         \* position of the for..of iterator in sources (line 172)
    movedCount,  \* let movedCount (line 170)
    calls,       \* the external calls issued so far, each with its status
    outputs,     \* core.setOutput
    failed,      \* core.setFailed
    log          \* core.info / core.warning / core.error entries

vars == <<inputs, pc, org, repo, path, token, sources, now, folder, backup, idx, movedCount,
          calls, outputs, failed, log>>

-----------------------------------------------------------------------------
(* Bounds of the model *)

\* longest listing the list call returns
MaxLen == 3

-----------------------------------------------------------------------------
(* JavaScript values *)

Undefined == "<undefined>"

\* ToBoolean of a string-or-undefined value: undefined and '' are falsy
Truthy(v) == v # Undefined /\ v # ""

RECURSIVE TrimStart(_)
TrimStart(s) ==
    IF Len(s) > 0 /\ SubSeq(s, 1, 1) = " "
    THEN TrimStart(SubSeq(s, 2, Len(s)))
    ELSE s

RECURSIVE TrimEnd(_)
TrimEnd(s) ==
    IF Len(s) > 0 /\ SubSeq(s, Len(s), Len(s)) = " "
    THEN TrimEnd(SubSeq(s, 1, Len(s) - 1))
    ELSE s

\* String.prototype.trim
Trim(s) == TrimEnd(TrimStart(s))

\* const path = core.getInput('path')?.trim() || ''
PathOrEmpty(s) == IF Truthy(Trim(s)) THEN Trim(s) ELSE ""

-----------------------------------------------------------------------------
(* Constants of the script *)

DA_ADMIN_API == "https://admin.da.live"

reservedItems == <<"tools", "block-collection">>

\* Array.prototype.includes on reservedItems
Includes(arr, v) == \E k \in 1..Len(arr) : arr[k] = v

NoBackupNeeded == "no-backup-needed"

\* the marker that starts every error_message (a cross mark in the script)
FailurePrefix == "[x] DA backup failed: "

MissingInputsMessage == "Both org and repo inputs are required"

NoTokenMessage == "No access token available. Please configure DA_CLIENT_ID, DA_CLIENT_SECRET, DA_SERVICE_TOKEN or IMS_TOKEN secrets."

-----------------------------------------------------------------------------
(* Inputs of the CI step (core.getInput returns '' for an input not given) *)

OrgInputs == {"", "  ", " o "}

RepoInputs == {"", " ", "r"}

PathInputs == {" ", "content"}

\* what getAccessTokenWithFallback resolves to: a token, no token, or a throw
TokenOutcomes ==
    { [throws |-> FALSE, value |-> "tok",     message |-> ""],
      [throws |-> FALSE, value |-> Undefined, message |-> ""],
      [throws |-> FALSE, value |-> "",        message |-> ""],
      [throws |-> TRUE,  value |-> Undefined, message |-> "IMS token request failed"] }

-----------------------------------------------------------------------------
(* Source items of a listing *)

Names == {Undefined, "tools", "block-collection", "index"}

Paths == {Undefined, "/o/r/index"}

Exts == {Undefined, "html"}

\* a JSON object entry; a field that is absent reads as undefined
ObjectItems ==
    { [kind |-> "object", name |-> n, path |-> p, ext |-> e] :
        n \in Names, p \in Paths, e \in Exts }

\* a JSON null entry
NullItem == [kind |-> "null", name |-> Undefined, path |-> Undefined, ext |-> Undefined]

\* a JSON entry that is no object (a number): every property reads as undefined
NumberItem == [kind |-> "number", name |-> Undefined, path |-> Undefined, ext |-> Undefined]

\* the entries a listing is made of: file items carry an ext only with a path
Items ==
    { s \in ObjectItems : s.ext # Undefined => (s.path # Undefined /\ s.name = "index") }
    \cup {NullItem, NumberItem}

Listings == UNION { [1..n -> Items] : n \in 0..MaxLen }

\* source.name, source.path, source.ext: a property read throws on null
ReadThrows(source) == source.kind = "null"

-----------------------------------------------------------------------------
(* HTTP responses and daFetch *)

\* bodies of a successful list response
ListBodies ==
    { [shape |-> "array",   items |-> S] : S \in Listings } \cup
    { [shape |-> "wrapped", items |-> S] : S \in Listings } \cup
    { [shape |-> "object",  items |-> <<>>],     \* a JSON object without sources
      [shape |-> "text",    items |-> <<>>] }    \* a body that is not JSON

EmptyBody == [shape |-> "object", items |-> <<>>]

ErrorResponse == [ok |-> FALSE, status |-> "500", json |-> FALSE, text |-> "Internal Server Error", body |-> EmptyBody]

NoContentResponse == [ok |-> TRUE, status |-> "204", json |-> FALSE, text |-> "", body |-> EmptyBody]

OkResponse(b) == [ok |-> TRUE, status |-> "200", json |-> b.shape # "text", text |-> "", body |-> b]

ListResponses == {ErrorResponse, NoContentResponse} \cup { OkResponse(b) : b \in ListBodies }

\* responses to the folder-creation and move calls
PostResponses == {ErrorResponse, NoContentResponse, OkResponse(EmptyBody)}

ApiErrorMessage(res) == "DA Admin API error " \o res.status \o ": " \o res.text

\* daFetch without the check of res.ok (lines 44-48 left out)
daFetchIgnoringStatus(res) ==
    IF res.status = "204"
    THEN [throws |-> FALSE, message |-> "", data |-> [type |-> "null", items |-> <<>>, hasSources |-> FALSE]]
    ELSE IF res.json
    THEN [throws |-> FALSE, message |-> "",
          data |-> IF res.body.shape = "array"
                   THEN [type |-> "array", items |-> res.body.items, hasSources |-> FALSE]
                   ELSE [type |-> "object", items |-> res.body.items,
                         hasSources |-> res.body.shape = "wrapped"]]
    ELSE [throws |-> FALSE, message |-> "", data |-> [type |-> "text", items |-> <<>>, hasSources |-> FALSE]]

\* daFetch: throws on a non-ok status, null on 204, else JSON or text
daFetch(res) ==
    IF ~res.ok
    THEN [throws |-> TRUE, message |-> ApiErrorMessage(res), data |-> [type |-> "null", items |-> <<>>, hasSources |-> FALSE]]
    ELSE IF res.status = "204"
    THEN [throws |-> FALSE, message |-> "", data |-> [type |-> "null", items |-> <<>>, hasSources |-> FALSE]]
    ELSE IF res.json
    THEN [throws |-> FALSE, message |-> "",
          data |-> IF res.body.shape = "array"
                   THEN [type |-> "array", items |-> res.body.items, hasSources |-> FALSE]
                   ELSE [type |-> "object", items |-> res.body.items,
                         hasSources |-> res.body.shape = "wrapped"]]
    ELSE [throws |-> FALSE, message |-> "", data |-> [type |-> "text", items |-> <<>>, hasSources |-> FALSE]]

NullSourcesMessage == "Cannot read properties of null (reading 'sources')"

NullNameMessage == "Cannot read properties of null (reading 'name')"

\* listSources with Array.isArray(data) ? data : []
listSourcesArrayOnly(res) ==
    LET r == daFetch(res) IN
    IF r.throws THEN [throws |-> TRUE, message |-> r.message, value |-> <<>>]
    ELSE IF r.data.type = "array" THEN [throws |-> FALSE, message |-> "", value |-> r.data.items]
    ELSE [throws |-> FALSE, message |-> "", value |-> <<>>]

UndefinedLengthMessage == "Cannot read properties of undefined (reading 'length')"

\* listSources with Array.isArray(data) ? data : data.sources
listSourcesWithoutDefault(res) ==
    LET r == daFetch(res) IN
    IF r.throws THEN [throws |-> TRUE, message |-> r.message, value |-> <<>>]
    ELSE IF r.data.type = "array" THEN [throws |-> FALSE, message |-> "", value |-> r.data.items]
    ELSE IF r.data.type = "null" THEN [throws |-> TRUE, message |-> NullSourcesMessage, value |-> <<>>]
    ELSE IF r.data.hasSources THEN [throws |-> FALSE, message |-> "", value |-> r.data.items]
    ELSE [throws |-> TRUE, message |-> UndefinedLengthMessage, value |-> <<>>]

\* listSources: Array.isArray(data) ? data : (data.sources || [])
listSources(res) ==
    LET r == daFetch(res) IN
    IF r.throws THEN [throws |-> TRUE, message |-> r.message, value |-> <<>>]
    ELSE IF r.data.type = "array" THEN [throws |-> FALSE, message |-> "", value |-> r.data.items]
    ELSE IF r.data.type = "null" THEN [throws |-> TRUE, message |-> NullSourcesMessage, value |-> <<>>]
    ELSE IF r.data.hasSources THEN [throws |-> FALSE, message |-> "", value |-> r.data.items]
    ELSE [throws |-> FALSE, message |-> "", value |-> <<>>]

\* endpoint of the list call
ListEndpoint(o, r, p) == "/list/" \o o \o "/" \o r \o "/" \o p

-----------------------------------------------------------------------------
(* The backup folder's name *)

Digits == "0123456789"

DigitChar(d) == SubSeq(Digits, d + 1, d + 1)

RECURSIVE Pad(_, _)
\* the decimal digits of n, zero-padded to width w
Pad(n, w) == IF w = 0 THEN "" ELSE Pad(n \div 10, w - 1) \o DigitChar(n % 10)

\* Date.prototype.toISOString: YYYY-MM-DDTHH:mm:ss.sssZ, and a signed
\* six-digit year outside 0..9999
toISOString(d) ==
    (IF d.year >= 0 /\ d.year <= 9999 THEN Pad(d.year, 4)
     ELSE IF d.year < 0 THEN "-" \o Pad(-d.year, 6) ELSE "+" \o Pad(d.year, 6))
    \o "-" \o Pad(d.month, 2) \o "-" \o Pad(d.day, 2)
    \o "T" \o Pad(d.hour, 2) \o ":" \o Pad(d.minute, 2) \o ":" \o Pad(d.second, 2)
    \o "." \o Pad(d.ms, 3) \o "Z"

RECURSIVE ReplaceFirstOnly(_)
\* .replace(/[:.]/, '-'): without the g flag only the first match is replaced
ReplaceFirstOnly(s) ==
    IF Len(s) = 0 THEN ""
    ELSE LET c == SubSeq(s, 1, 1) IN
         IF c = ":" \/ c = "." THEN "-" \o SubSeq(s, 2, Len(s))
         ELSE c \o ReplaceFirstOnly(SubSeq(s, 2, Len(s)))

RECURSIVE ReplaceColonPeriod(_)
\* .replace(/[:.]/g, '-')
ReplaceColonPeriod(s) ==
    IF Len(s) = 0 THEN ""
    ELSE LET c == SubSeq(s, 1, 1) IN
         (IF c = ":" \/ c = "." THEN "-" ELSE c) \o ReplaceColonPeriod(SubSeq(s, 2, Len(s)))

\* .slice(0, n) for 0 <= n
SliceTo(s, n) == SubSeq(s, 1, IF n < Len(s) THEN n ELSE Len(s))

TimestampLen == 19

Timestamp(d) == SliceTo(ReplaceColonPeriod(toISOString(d)), TimestampLen)

BackupName(d) == "backup-" \o Timestamp(d)

\* parentPath ? `${parentPath}/${backupName}` : backupName
BackupPath(parentPath, name) ==
    IF Truthy(parentPath) THEN parentPath \o "/" \o name ELSE name

CreateEndpoint(o, r, backupPath) == "/source/" \o o \o "/" \o r \o "/" \o backupPath

\* values of new Date() at which the folder is created
Clocks ==
    { [year |-> 2025, month |-> 1, day |-> 2, hour |-> 3, minute |-> 4, second |-> 5, ms |-> 6],
      [year |-> 2025, month |-> 12, day |-> 31, hour |-> 23, minute |-> 59, second |-> 59, ms |-> 999] }

-----------------------------------------------------------------------------
(* The move call *)

\* encodeURIComponent on one character of the paths modelled here
EncodeChar(c) ==
    IF c = "/" THEN "%2F"
    ELSE IF c = " " THEN "%20"
    ELSE IF c = "%" THEN "%25"
    ELSE c

RECURSIVE EncodeFrom(_, _)
\* the characters of s from position i on, each one encoded
EncodeFrom(s, i) ==
    IF i > Len(s) THEN ""
    ELSE EncodeChar(SubSeq(s, i, i)) \o EncodeFrom(s, i + 1)

encodeURIComponent(s) == EncodeFrom(s, 1)

RECURSIVE ReplaceEncodedSlashFrom(_, _)
\* the characters of s from position i on, every "%2F" turned into "/"
ReplaceEncodedSlashFrom(s, i) ==
    IF i > Len(s) THEN ""
    ELSE IF i + 2 <= Len(s) /\ SubSeq(s, i, i + 2) = "%2F"
    THEN "/" \o ReplaceEncodedSlashFrom(s, i + 3)
    ELSE SubSeq(s, i, i) \o ReplaceEncodedSlashFrom(s, i + 1)

\* .replace(/%2F/g, '/')
ReplaceEncodedSlash(s) == ReplaceEncodedSlashFrom(s, 1)

MoveEndpoint(sourcePath) == "/move" \o ReplaceEncodedSlash(encodeURIComponent(sourcePath))

\* source.ext ? `${source.name}.${source.ext}` : source.name
FileName(source) ==
    IF Truthy(source.ext) THEN source.name \o "." \o source.ext ELSE source.name

\* `/${org}/${repo}/${backup.name}/${fileName}`
DestPathByName(o, r, b, source) == "/" \o o \o "/" \o r \o "/" \o b.name \o "/" \o FileName(source)

\* `/${org}/${repo}/${backup.path}/${fileName}`
DestPath(o, r, b, source) == "/" \o o \o "/" \o r \o "/" \o b.path \o "/" \o FileName(source)

-----------------------------------------------------------------------------
(* The run *)

\* no Date taken yet
NoClock == [year |-> 0, month |-> 0, day |-> 0, hour |-> 0, minute |-> 0, second |-> 0, ms |-> 0]

NoFolder == [name |-> Undefined, path |-> Undefined]

\* an external call: getAccessTokenWithFallback or a fetch of daFetch
Call(op, endpoint, item, dest) ==
    [op |-> op, endpoint |-> endpoint, item |-> item, dest |-> dest, status |-> "pending"]

\* a request of daFetch: fetch(`${DA_ADMIN_API}${endpoint}`, ...)
Fetch(op, endpoint, item, dest) == Call(op, DA_ADMIN_API \o endpoint, item, dest)

\* the last call issued has returned
Settle(cs, ok) ==
    [cs EXCEPT ![Len(cs)].status = IF ok THEN "ok" ELSE "failed"]

Entry(level, event, item) == [level |-> level, event |-> event, item |-> item]

Init ==
    /\ inputs \in [org : OrgInputs, repo : RepoInputs, path : PathInputs]
    /\ pc = "validate"
    /\ org = Undefined
    /\ repo = Undefined
    /\ path = Undefined
    /\ token = Undefined
    /\ sources = <<>>
    /\ now = NoClock
    /\ folder = NoFolder
    /\ backup = NoFolder
    /\ idx = 0
    /\ movedCount = 0
    /\ calls = <<>>
    /\ outputs = [backup_folder_name |-> Undefined, error_message |-> Undefined]
    /\ failed = FALSE
    /\ log = <<>>

\* the catch block without core.setFailed
CatchWithoutSetFailed(message, lg) ==
    /\ log' = Append(lg, Entry("error", "DA backup failed: " \o message, 0))
    /\ outputs' = [outputs EXCEPT !.error_message = FailurePrefix \o message]
    /\ failed' = failed
    /\ pc' = "done"

\* the catch block of run (lines 200-204), entered with the log written so far
Catch(message, lg) ==
    /\ log' = Append(lg, Entry("error", "DA backup failed: " \o message, 0))
    /\ outputs' = [outputs EXCEPT !.error_message = FailurePrefix \o message]
    /\ failed' = TRUE
    /\ pc' = "done"

\* !org && !repo
InputsMissingBoth(o, r) == ~Truthy(o) /\ ~Truthy(r)

\* !org || !repo
InputsMissing(o, r) == ~Truthy(o) \/ ~Truthy(r)

\* token === undefined
NoTokenUndefinedOnly(t) == t = Undefined

\* !token
NoToken(t) == ~Truthy(t)

\* sources.length < 0
NothingToBackupNever(s) == Len(s) < 0

\* sources.length === 0
NothingToBackup(s) == Len(s) = 0

\* lines 131-142: read and check the inputs, then ask for a token
Validate ==
    /\ pc = "validate"
    /\ org' = Trim(inputs.org)
    /\ repo' = Trim(inputs.repo)
    /\ path' = PathOrEmpty(inputs.path)
    /\ IF InputsMissing(Trim(inputs.org), Trim(inputs.repo))
       THEN /\ Catch(MissingInputsMessage, log)
            /\ UNCHANGED calls
       ELSE /\ log' = Append(log, Entry("info", "Starting DA backup", 0))
            /\ calls' = Append(calls, Call("token", "", 0, ""))
            /\ pc' = "token"
            /\ UNCHANGED <<outputs, failed>>
    /\ UNCHANGED <<inputs, token, sources, now, folder, backup, idx, movedCount>>

\* lines 142-150: the token arrives (or not); issue the list call
TokenReturn ==
    /\ pc = "token"
    /\ \E t \in TokenOutcomes :
        /\ token' = t.value
        /\ IF t.throws
           THEN /\ Catch(t.message, log)
                /\ calls' = Settle(calls, FALSE)
           ELSE IF NoToken(t.value)
           THEN /\ Catch(NoTokenMessage, log)
                /\ calls' = Settle(calls, TRUE)
           ELSE /\ calls' = Append(Settle(calls, TRUE),
                                   Fetch("list", ListEndpoint(org, repo, path), 0, ""))
                /\ pc' = "list"
                /\ UNCHANGED <<outputs, failed, log>>
    /\ UNCHANGED <<inputs, org, repo, path, sources, now, folder, backup, idx, movedCount>>

\* lines 150-166 and 85-96: the listing arrives; an empty one ends the run,
\* any other one starts the folder creation
ListStep(res, date) ==
    /\ pc = "list"
    /\ LET r == listSources(res)
            name == BackupName(date)
            bpath == BackupPath(path, name)
        IN
        IF r.throws
        THEN /\ Catch(r.message,
                      IF res.ok THEN log ELSE Append(log, Entry("warning", r.message, 0)))
             /\ calls' = Settle(calls, res.ok)
             /\ UNCHANGED <<sources, now, folder>>
        ELSE IF NothingToBackup(r.value)
        THEN /\ sources' = r.value
             /\ log' = log \o << Entry("info", "Found sources to process", Len(r.value)),
                                 Entry("info", "No sources found to backup", 0) >>
             /\ outputs' = [outputs EXCEPT !.backup_folder_name = NoBackupNeeded]
             /\ calls' = Settle(calls, res.ok)
             /\ pc' = "done"
             /\ UNCHANGED <<failed, now, folder>>
        ELSE /\ sources' = r.value
             /\ log' = Append(log, Entry("info", "Found sources to process", Len(r.value)))
             /\ now' = date
             /\ folder' = [name |-> name, path |-> bpath]
             /\ calls' = Append(Settle(calls, res.ok),
                                Fetch("create", CreateEndpoint(org, repo, bpath), 0, ""))
             /\ pc' = "create"
             /\ UNCHANGED <<outputs, failed>>
    /\ UNCHANGED <<inputs, org, repo, path, token, backup, idx, movedCount>>

ListReturn ==
    /\ pc = "list"
    /\ \E res \in ListResponses, date \in Clocks : ListStep(res, date)

\* lines 94-99 and 166-172: the folder creation returns; enter the loop
CreateReturn ==
    /\ pc = "create"
    /\ \E res \in PostResponses :
        LET r == daFetch(res) IN
        IF r.throws
        THEN /\ Catch(r.message, Append(log, Entry("warning", r.message, 0)))
             /\ calls' = Settle(calls, res.ok)
             /\ UNCHANGED <<backup, idx>>
        ELSE /\ log' = Append(log, Entry("info", "Created backup folder", 0))
             /\ backup' = folder
             /\ idx' = 1
             /\ calls' = Settle(calls, res.ok)
             /\ pc' = "loop"
             /\ UNCHANGED <<outputs, failed>>
    /\ UNCHANGED <<inputs, org, repo, path, token, sources, now, folder, movedCount>>

\* source.name === reservedItems[0]
IsReservedFirstOnly(source) == source.name = reservedItems[1]

\* reservedItems.includes(source.name)
IsReserved(source) == Includes(reservedItems, source.name)

\* !source.path && !source.name
IsMalformedBoth(source) == ~Truthy(source.path) /\ ~Truthy(source.name)

\* !source.path || !source.name
IsMalformed(source) == ~Truthy(source.path) \/ ~Truthy(source.name)

\* line 174 on a null entry: reading source.name throws, outside the inner try
LoopThrow ==
    /\ pc = "loop"
    /\ idx <= Len(sources)
    /\ ReadThrows(sources[idx])
    /\ Catch(NullNameMessage, log)
    /\ UNCHANGED <<inputs, org, repo, path, token, sources, now, folder, backup, idx, movedCount, calls>>

\* lines 174-177
SkipReserved ==
    /\ pc = "loop"
    /\ idx <= Len(sources)
    /\ ~ReadThrows(sources[idx])
    /\ IsReserved(sources[idx])
    /\ log' = Append(log, Entry("info", "Skipping reserved item", idx))
    /\ idx' = idx + 1
    /\ UNCHANGED <<inputs, pc, org, repo, path, token, sources, now, folder, backup, movedCount,
                   calls, outputs, failed>>

\* lines 179-182
SkipMalformed ==
    /\ pc = "loop"
    /\ idx <= Len(sources)
    /\ ~ReadThrows(sources[idx])
    /\ ~IsReserved(sources[idx])
    /\ IsMalformed(sources[idx])
    /\ log' = Append(log, Entry("warning", "Source missing required properties", idx))
    /\ idx' = idx + 1
    /\ UNCHANGED <<inputs, pc, org, repo, path, token, sources, now, folder, backup, movedCount,
                   calls, outputs, failed>>

\* moveSource called without await: the loop goes on while the call is in flight
StartMoveWithoutAwait ==
    /\ pc = "loop"
    /\ idx <= Len(sources)
    /\ ~ReadThrows(sources[idx])
    /\ ~IsReserved(sources[idx])
    /\ ~IsMalformed(sources[idx])
    /\ calls' = Append(calls, Fetch("move", MoveEndpoint(sources[idx].path), idx,
                                   DestPath(org, repo, backup, sources[idx])))
    /\ log' = Append(log, Entry("info", "Moved", idx))
    /\ movedCount' = movedCount + 1
    /\ idx' = idx + 1
    /\ UNCHANGED <<inputs, pc, org, repo, path, token, sources, now, folder, backup,
                   outputs, failed>>

\* lines 184-190 and 109-119: issue the move call of the current item
StartMove ==
    /\ pc = "loop"
    /\ idx <= Len(sources)
    /\ ~ReadThrows(sources[idx])
    /\ ~IsReserved(sources[idx])
    /\ ~IsMalformed(sources[idx])
    /\ calls' = Append(calls, Fetch("move", MoveEndpoint(sources[idx].path), idx,
                                   DestPath(org, repo, backup, sources[idx])))
    /\ pc' = "move"
    /\ UNCHANGED <<inputs, org, repo, path, token, sources, now, folder, backup, idx, movedCount,
                   outputs, failed, log>>

\* the move call returns; after a failure the same item is tried again
MoveReturnRetrying ==
    /\ pc = "move"
    /\ \E res \in PostResponses :
        LET r == daFetch(res) IN
        IF r.throws
        THEN /\ log' = log \o << Entry("warning", r.message, idx),
                                 Entry("warning", "Failed to move", idx) >>
             /\ calls' = Settle(calls, res.ok)
             /\ UNCHANGED <<movedCount, idx>>
        ELSE /\ log' = Append(log, Entry("info", "Moved", idx))
             /\ movedCount' = movedCount + 1
             /\ calls' = Settle(calls, res.ok)
             /\ idx' = idx + 1
    /\ pc' = "loop"
    /\ UNCHANGED <<inputs, org, repo, path, token, sources, now, folder, backup, outputs, failed>>

\* lines 190-196: the move call returns; a failure is caught inside the loop
MoveReturn ==
    /\ pc = "move"
    /\ \E res \in PostResponses :
        LET r == daFetch(res) IN
        IF r.throws
        THEN /\ log' = log \o << Entry("warning", r.message, idx),
                                 Entry("warning", "Failed to move", idx) >>
             /\ calls' = Settle(calls, res.ok)
             /\ UNCHANGED movedCount
        ELSE /\ log' = Append(log, Entry("info", "Moved", idx))
             /\ movedCount' = movedCount + 1
             /\ calls' = Settle(calls, res.ok)
    /\ idx' = idx + 1
    /\ pc' = "loop"
    /\ UNCHANGED <<inputs, org, repo, path, token, sources, now, folder, backup, outputs, failed>>

\* lines 198-199: the loop is over; report
Report ==
    /\ pc = "loop"
    /\ idx > Len(sources)
    /\ log' = Append(log, Entry("info", "Backup completed", movedCount))
    /\ outputs' = [outputs EXCEPT !.backup_folder_name = backup.name]
    /\ pc' = "done"
    /\ UNCHANGED <<inputs, org, repo, path, token, sources, now, folder, backup, idx, movedCount,
                   calls, failed>>

Next ==
    \/ Validate
    \/ TokenReturn
    \/ ListReturn
    \/ CreateReturn
    \/ LoopThrow
    \/ SkipReserved
    \/ SkipMalformed
    \/ StartMove
    \/ MoveReturn
    \/ Report

Spec == Init /\ [][Next]_vars

\* every call returns or fails, and the script runs on whenever it can
FairSpec == Spec /\ WF_vars(Next)

-----------------------------------------------------------------------------
(* The run over the values of the clock: the listing is one item to move *)

\* values of new Date(): first and last values of every field below the year
AllClocks ==
    [ year : {1970, 2025, 9999}, month : {1, 12}, day : {1, 31}, hour : {0, 23},
      minute : {0, 59}, second : {0, 7, 59}, ms : {0, 45, 999} ]

OneFileListing == << [kind |-> "object", name |-> "index", path |-> "/o/r/index", ext |-> "html"] >>

ClockListReturn ==
    /\ pc = "list"
    /\ \E date \in AllClocks :
           ListStep(OkResponse([shape |-> "array", items |-> OneFileListing]), date)

ClockNext ==
    \/ Validate
    \/ TokenReturn
    \/ ClockListReturn
    \/ CreateReturn
    \/ StartMove
    \/ MoveReturn
    \/ Report

ClockSpec == Init /\ [][ClockNext]_vars

-----------------------------------------------------------------------------
(* Vocabulary of the properties *)

\* positions in calls of the calls of one kind
CallsOf(op) == { k \in DOMAIN calls : calls[k].op = op }

\* the move calls issued for the item at position i of the listing
MovesOf(i) == { k \in CallsOf("move") : calls[k].item = i }

CreateSucceeded == \E k \in CallsOf("create") : calls[k].status = "ok"

ReservedNames == {"tools", "block-collection"}

\* positions of the listing whose entry carries a reserved name
ReservedPositions ==
    { i \in DOMAIN sources : sources[i].kind = "object" /\ sources[i].name \in ReservedNames }

\* positions the loop has skipped with the missing-properties warning
SkippedMalformed ==
    { log[k].item : k \in { j \in DOMAIN log : log[j].event = "Source missing required properties" } }

\* positions the loop has skipped as reserved
SkippedReserved ==
    { log[k].item : k \in { j \in DOMAIN log : log[j].event = "Skipping reserved item" } }

HasField(v) == v # Undefined /\ v # ""

\* an entry the loop is meant to move: a record with a name and a path whose
\* name is not reserved
Eligible(s) ==
    /\ s.kind = "object"
    /\ s.name \notin ReservedNames
    /\ HasField(s.name)
    /\ HasField(s.path)

\* an entry that is no record with both a name and a path
MalformedRecord(s) == s.kind # "object" \/ ~HasField(s.name) \/ ~HasField(s.path)

\* the loop has finished with position k
Reached(k) == pc \in {"loop", "move", "done"} /\ k < idx

\* the listing arrived and was empty
ListedEmpty ==
    \E k \in DOMAIN log : log[k] = Entry("info", "Found sources to process", 0)

RECURSIVE AllSpaces(_)
AllSpaces(s) == Len(s) = 0 \/ (SubSeq(s, 1, 1) = " " /\ AllSpaces(SubSeq(s, 2, Len(s))))

-----------------------------------------------------------------------------
(* Properties *)

\* C1: in a terminated run whose listing is non-empty and whose folder was
\* created, the number of move calls is the number of listed items minus the
\* reserved ones minus the ones skipped as malformed, and each remaining item
\* has exactly one move call.
C1_MoveCallCount ==
    (pc = "done" /\ Len(sources) > 0 /\ CreateSucceeded) =>
        /\ Cardinality(CallsOf("move")) =
               Len(sources) - Cardinality(ReservedPositions)
                            - Cardinality(SkippedMalformed \ ReservedPositions)
        /\ \A i \in (DOMAIN sources) \ (ReservedPositions \cup SkippedMalformed) :
               Cardinality(MovesOf(i)) = 1

\* C2: no move call is ever issued for an item named tools or
\* block-collection, whatever its path, ext and position.
C2_ReservedNeverMoved ==
    \A k \in CallsOf("move") : sources[calls[k].item].name \notin ReservedNames

C2_Witness ==
    /\ pc = "done"
    /\ CallsOf("move") # {}
    /\ \E i, j \in DOMAIN sources :
        /\ sources[i].name = "tools" /\ sources[i].path # Undefined
        /\ sources[j].name = "block-collection" /\ sources[j].path # Undefined
        /\ i \in SkippedReserved /\ j \in SkippedReserved

\* C3: when the list operation returns an empty sequence, no folder-creation
\* and no move call is issued, backup_folder_name is no-backup-needed, there
\* is no error_message and the run is not failed.
C3_EmptyListing ==
    ListedEmpty =>
        /\ CallsOf("create") = {}
        /\ CallsOf("move") = {}
        /\ outputs.backup_folder_name = "no-backup-needed"
        /\ outputs.error_message = Undefined
        /\ ~failed

C3_Witness == ListedEmpty /\ pc = "done" /\ \E k \in CallsOf("list") : calls[k].status = "ok"

\* C4: with org or repo empty or made of spaces only, the run ends failed
\* with an error_message, and no token, list, create or move call is issued.
C4_MissingInputs ==
    (pc # "validate" /\ (AllSpaces(inputs.org) \/ AllSpaces(inputs.repo))) =>
        /\ pc = "done"
        /\ failed
        /\ outputs.error_message # Undefined
        /\ outputs.backup_folder_name = Undefined
        /\ calls = <<>>

C4_Witness ==
    /\ pc = "done"
    /\ inputs.org = "  "
    /\ inputs.repo = "r"
    /\ failed

\* C5: in a terminated run, every eligible item listed after an item whose
\* move failed has a move call of its own, and the count reported at the end
\* is the number of move calls that succeeded.
C5_FailedMoveDoesNotStopBatch ==
    pc = "done" =>
        /\ \A k \in CallsOf("move") :
               calls[k].status = "failed" =>
                   \A j \in (calls[k].item + 1)..Len(sources) :
                       Eligible(sources[j]) => MovesOf(j) # {}
        /\ \A e \in DOMAIN log :
               log[e].event = "Backup completed" =>
                   log[e].item = Cardinality({ k \in CallsOf("move") : calls[k].status = "ok" })

\* C6: the failed signal is set exactly when error_message is set, never
\* together with backup_folder_name, and a terminated run has set one of the
\* two outputs.
C6_ExactlyOneResult ==
    /\ failed <=> outputs.error_message # Undefined
    /\ ~(outputs.backup_folder_name # Undefined /\ outputs.error_message # Undefined)
    /\ pc = "done" =>
           (outputs.backup_folder_name # Undefined \/ outputs.error_message # Undefined)

C6_Witness ==
    /\ pc = "done"
    /\ \E k \in CallsOf("list") : calls[k].status = "failed"
    /\ failed
    /\ outputs.error_message # Undefined
    /\ outputs.backup_folder_name = Undefined

\* C7: a list or folder-creation call that fails is the last call of the
\* run, which ends failed with an error_message and no backup_folder_name.
C7_ListOrCreateFailureAborts ==
    \A k \in DOMAIN calls :
        (calls[k].op \in {"list", "create"} /\ calls[k].status = "failed") =>
            /\ k = Len(calls)
            /\ pc = "done"
            /\ failed
            /\ outputs.error_message # Undefined
            /\ outputs.backup_folder_name = Undefined

C7_Witness ==
    /\ pc = "done"
    /\ \E k \in CallsOf("create") : calls[k].status = "failed"
    /\ Len(sources) > 0
    /\ failed

\* C8: a terminated run whose listing is non-empty and whose folder was
\* created has output the created folder's name as backup_folder_name, has no
\* error_message and is not failed, whatever moves failed.
C8_MoveFailuresNeverFailRun ==
    (pc = "done" /\ Len(sources) > 0 /\ CreateSucceeded) =>
        /\ outputs.backup_folder_name = folder.name
        /\ outputs.error_message = Undefined
        /\ ~failed

\* C9: a malformed entry of the listing (no name, no path, null or no
\* object) gets no move call and does not fail the run, and every entry after
\* it is still processed.
C9_MalformedIsNonTerminal ==
    (pc = "done" /\ CreateSucceeded) =>
        \A k \in DOMAIN sources :
            MalformedRecord(sources[k]) =>
                /\ MovesOf(k) = {}
                /\ ~failed
                /\ \A j \in (k + 1)..Len(sources) : Reached(j)

C11_NoTokenAborts ==
    \A k \in CallsOf("token") :
        (calls[k].status = "failed" \/ (calls[k].status = "ok" /\ ~HasField(token))) =>
            /\ pc = "done"
            /\ failed
            /\ outputs.error_message # Undefined
            /\ calls[k].status = "ok" => outputs.error_message = FailurePrefix \o NoTokenMessage
            /\ outputs.backup_folder_name = Undefined
            /\ Len(calls) = 1

C11_Witness ==
    /\ pc = "done"
    /\ CallsOf("token") # {}
    /\ calls[1].status = "ok"
    /\ token = ""
    /\ failed

\* C12: every move call carries the destination
\* /{org}/{repo}/{backup.path}/{fileName}: backup.path is the path of the one
\* folder the run created (parentPath/name, or name with an empty path input)
\* and fileName is name.ext for an item with an ext, name otherwise; the
\* backup_folder_name output, once set, is that folder's name.
C12_MoveDestinations ==
    \A k \in CallsOf("move") :
        LET s == sources[calls[k].item]
            expectedFolder == IF path = "" THEN folder.name ELSE path \o "/" \o folder.name
            expectedFile == IF HasField(s.ext) THEN s.name \o "." \o s.ext ELSE s.name
        IN
        /\ calls[k].dest = "/" \o org \o "/" \o repo \o "/" \o expectedFolder \o "/" \o expectedFile
        /\ backup = folder
        /\ \A c \in CallsOf("create") :
               /\ CallsOf("create") = {c}
               /\ calls[c].status = "ok"
               /\ calls[c].endpoint =
                      DA_ADMIN_API \o "/source/" \o org \o "/" \o repo \o "/" \o expectedFolder
        /\ outputs.backup_folder_name \in {Undefined, folder.name}

C12_Witness ==
    /\ pc = "done"
    /\ path = "content"
    /\ outputs.backup_folder_name = folder.name
    /\ \E k1, k2 \in CallsOf("move") :
        /\ sources[calls[k1].item].ext = "html"
        /\ sources[calls[k2].item].ext = Undefined
        /\ calls[k1].dest = "/o/r/content/backup-2025-01-02T03-04-05/index.html"
        /\ calls[k2].dest = "/o/r/content/backup-2025-01-02T03-04-05/index"

DigitValue(c) ==
    CASE c = "0" -> 0 [] c = "1" -> 1 [] c = "2" -> 2 [] c = "3" -> 3 [] c = "4" -> 4
      [] c = "5" -> 5 [] c = "6" -> 6 [] c = "7" -> 7 [] c = "8" -> 8 [] c = "9" -> 9
      [] OTHER -> -1

IsDigit(c) == DigitValue(c) >= 0

RECURSIVE Decimal(_)
\* the number a string of digits denotes
Decimal(s) ==
    IF Len(s) = 0 THEN 0
    ELSE 10 * Decimal(SubSeq(s, 1, Len(s) - 1)) + DigitValue(SubSeq(s, Len(s), Len(s)))

CharAt(s, i) == SubSeq(s, i, i)

SameSecond(c, d) ==
    /\ c.year = d.year /\ c.month = d.month /\ c.day = d.day
    /\ c.hour = d.hour /\ c.minute = d.minute /\ c.second = d.second

\* C13: whatever the clock at the folder creation, the folder name is backup-
\* followed by exactly 19 characters of the form YYYY-MM-DDTHH-MM-SS that
\* spell the clock's UTC date and time to the second; it holds no colon and no
\* period, and every clock value of the same second gives the same name.
C13_BackupNameFormat ==
    folder # NoFolder =>
        LET n == folder.name
            ts == SubSeq(n, 8, Len(n))
        IN
        /\ SubSeq(n, 1, 7) = "backup-"
        /\ Len(ts) = 19
        /\ \A i \in 1..Len(n) : CharAt(n, i) \notin {":", "."}
        /\ \A i \in 1..19 :
               IF i \in {5, 8, 14, 17} THEN CharAt(ts, i) = "-"
               ELSE IF i = 11 THEN CharAt(ts, i) = "T"
               ELSE IsDigit(CharAt(ts, i))
        /\ Decimal(SubSeq(ts, 1, 4)) = now.year
        /\ Decimal(SubSeq(ts, 6, 7)) = now.month
        /\ Decimal(SubSeq(ts, 9, 10)) = now.day
        /\ Decimal(SubSeq(ts, 12, 13)) = now.hour
        /\ Decimal(SubSeq(ts, 15, 16)) = now.minute
        /\ Decimal(SubSeq(ts, 18, 19)) = now.second
        /\ \A c \in AllClocks : SameSecond(c, now) => BackupName(c) = n

C13_Witness ==
    /\ pc = "done"
    /\ now = [year |-> 2025, month |-> 12, day |-> 31, hour |-> 23,
              minute |-> 59, second |-> 7, ms |-> 999]
    /\ folder.name = "backup-2025-12-31T23-59-07"
    /\ outputs.backup_folder_name = folder.name

\* C14: only the call issued last can be in flight, so at most one move call
\* is in flight at any moment; move calls are issued in listing order; and
\* when a move call is issued, the move call of every earlier eligible item
\* has completed, successfully or not.
C14_MovesOneAtATimeInOrder ==
    /\ \A k \in DOMAIN calls : calls[k].status = "pending" => k = Len(calls)
    /\ \A k1, k2 \in CallsOf("move") : k1 < k2 => calls[k1].item < calls[k2].item
    /\ \A k \in CallsOf("move") :
           /\ calls[k].item \in DOMAIN sources
           /\ \A j \in 1..(calls[k].item - 1) :
                  Eligible(sources[j]) =>
                      \E m \in MovesOf(j) : m < k /\ calls[m].status \in {"ok", "failed"}

C14_Witness ==
    /\ pc = "move"
    /\ Cardinality(CallsOf("move")) = 3
    /\ \E k1, k2 \in CallsOf("move") :
           k1 < k2 /\ calls[k1].status = "failed" /\ calls[k2].status = "ok"
    /\ calls[Len(calls)].status = "pending"

\* C15: the credential call is the first call and is issued only with org
\* and repo given; the list call comes second, after a token was obtained;
\* the folder-creation call comes third, after the list call succeeded with a
\* non-empty listing; move calls come after the folder creation succeeded;
\* and the folder's name is output only when every move call has completed
\* and the loop is past the last item.
C15_StepsInOrder ==
    /\ \A k \in DOMAIN calls :
        /\ calls[k].op = "token" =>
               k = 1 /\ ~AllSpaces(inputs.org) /\ ~AllSpaces(inputs.repo)
        /\ calls[k].op = "list" =>
               k = 2 /\ calls[1].op = "token" /\ calls[1].status = "ok" /\ HasField(token)
        /\ calls[k].op = "create" =>
               k = 3 /\ calls[2].op = "list" /\ calls[2].status = "ok" /\ Len(sources) > 0
        /\ calls[k].op = "move" =>
               k > 3 /\ calls[3].op = "create" /\ calls[3].status = "ok"
    /\ outputs.backup_folder_name \notin {Undefined, "no-backup-needed"} =>
           /\ pc = "done"
           /\ idx = Len(sources) + 1
           /\ \A k \in DOMAIN calls : calls[k].status # "pending"

C15_Witness ==
    /\ outputs.backup_folder_name = folder.name
    /\ Len(calls) = 5
    /\ calls[4].op = "move" /\ calls[4].status = "failed"
    /\ calls[5].op = "move" /\ calls[5].status = "ok"

\* C16: in every run the credential, list and folder-creation calls are
\* issued at most once each, and every listed item has at most one move call,
\* also after that call failed.
C16_NoRetries ==
    /\ Cardinality(CallsOf("token")) <= 1
    /\ Cardinality(CallsOf("list")) <= 1
    /\ Cardinality(CallsOf("create")) <= 1
    /\ \A i \in DOMAIN sources : Cardinality(MovesOf(i)) <= 1
    /\ \A k \in DOMAIN calls :
           calls[k].status = "failed" =>
               \A m \in DOMAIN calls :
                   m > k => (calls[m].op # calls[k].op \/ calls[m].item # calls[k].item)

C16_Witness ==
    /\ pc = "done"
    /\ outputs.backup_folder_name = folder.name
    /\ \E k \in CallsOf("move") :
           /\ calls[k].status = "failed"
           /\ k < Len(calls)
           /\ Cardinality(MovesOf(calls[k].item)) = 1

\* a list response that is the object {sources: S}
Wrapped(S) == OkResponse([shape |-> "wrapped", items |-> S])

\* a list response that is the bare array S
Bare(S) == OkResponse([shape |-> "array", items |-> S])

\* C17: the step that takes in the list response is the same for {sources: S}
\* and for the bare array S: with the same clock, a step is the one the
\* wrapped response produces exactly if it is the one the bare array
\* produces, and every step that starts the folder creation is produced by
\* both.  The run after that step depends only on the state it leaves, so the
\* folder creation, the moves, the moved count and the outputs are the same.
C17_WrappedAsBare ==
    [][ (pc = "list" /\ pc' # "list") =>
            \A date \in Clocks :
                /\ ListStep(Wrapped(sources'), date) <=> ListStep(Bare(sources'), date)
                /\ (pc' = "create" /\ now' = date) =>
                       (ListStep(Wrapped(sources'), date) /\ Len(sources') > 0)
                /\ outputs'.backup_folder_name = "no-backup-needed" =>
                       ListStep(Wrapped(<<>>), date)
      ]_vars

C17_Witness ==
    /\ pc = "done"
    /\ Len(sources) = 3
    /\ Cardinality(CallsOf("move")) = 2
    /\ listSources(Wrapped(sources)) = [throws |-> FALSE, message |-> "", value |-> sources]
    /\ outputs.backup_folder_name = folder.name

Terminated ==
    /\ pc = "done"
    /\ outputs.backup_folder_name # Undefined \/ outputs.error_message # Undefined

\* C18: when every call returns or fails, every run reaches its end with a
\* result output set and stays there, in no state does it stay forever; the
\* position of the move loop never goes back and each pass of the loop moves
\* it forward by one; and once the backup folder is created the loop gets past
\* the last item of the listing, so each listed item is visited, once, before
\* the run ends.
C18_RunTerminates ==
    /\ <>[]Terminated
    /\ [](CreateSucceeded => <>(pc = "done" /\ \A k \in DOMAIN sources : Reached(k)))
    /\ [][ /\ idx' >= idx
           /\ (pc = "loop" /\ pc' = "loop") => idx' = idx + 1
           /\ (pc = "move" /\ pc' = "loop") => idx' = idx + 1
           /\ pc = "done" => pc' = "done" ]_vars

\* C19: the folder-creation call is issued, once, exactly when the list call
\* returned a listing of at least one item; and a run whose folder was created
\* for a listing made only of reserved and malformed items issues no move
\* call and ends in success with the folder's name as backup_folder_name and
\* a reported moved count of 0.
C19_FolderCreatedForAnyNonEmptyListing ==
    /\ CallsOf("create") # {} <=> Len(sources) > 0
    /\ Cardinality(CallsOf("create")) <= 1
    /\ ( /\ pc = "done"
         /\ CreateSucceeded
         /\ \A k \in DOMAIN sources :
                k \in ReservedPositions \/ MalformedRecord(sources[k]) ) =>
            /\ CallsOf("move") = {}
            /\ ~failed
            /\ outputs.error_message = Undefined
            /\ outputs.backup_folder_name = folder.name
            /\ log[Len(log)] = Entry("info", "Backup completed", 0)

\* successful list responses whose body is no array and carries no sources
BodiesWithoutSources ==
    { OkResponse([shape |-> "object", items |-> <<>>]),
      OkResponse([shape |-> "text", items |-> <<>>]) }

\* C20: when the list call returns successfully with a JSON object that has
\* no sources, or with a body that is not JSON, the run ends at once in
\* success with backup_folder_name = no-backup-needed, having issued no
\* folder-creation and no move call; when it returns successfully with
\* status 204 (no body), the run ends at once with error_message set and a
\* failed status, and no backup_folder_name.
C20_BodyWithoutSourcesIsEmptyListing ==
    [][ pc = "list" =>
          /\ (\E res \in BodiesWithoutSources, date \in Clocks : ListStep(res, date)) =>
                 /\ pc' = "done"
                 /\ ~failed'
                 /\ outputs' = [backup_folder_name |-> NoBackupNeeded, error_message |-> Undefined]
                 /\ \A k \in DOMAIN calls' : calls'[k].op \notin {"create", "move"}
                 /\ calls'[Len(calls')].status = "ok"
          /\ (\E date \in Clocks : ListStep(NoContentResponse, date)) =>
                 /\ pc' = "done"
                 /\ failed'
                 /\ outputs' = [backup_folder_name |-> Undefined,
                                error_message |-> FailurePrefix \o NullSourcesMessage]
                 /\ \A k \in DOMAIN calls' : calls'[k].op \notin {"create", "move"}
                 /\ calls'[Len(calls')].status = "ok"
      ]_vars

C20_Witness ==
    /\ pc = "done"
    /\ failed
    /\ Len(calls) > 0
    /\ calls[Len(calls)] = [Fetch("list", ListEndpoint(org, repo, path), 0, "")
                               EXCEPT !.status = "ok"]
    /\ outputs.error_message = FailurePrefix \o NullSourcesMessage

====
